---- MODULE Spec2Model ----
(***************************************************************************)
(* A model of the loss/transform core of lightly:                          *)
(*   - sinkhorn and SwaVLoss        (src/lightly/loss/swav_loss.py)        *)
(*   - GaussianBlur                 (src/lightly/transforms/gaussian_blur.py) *)
(*   - TiCoLoss, as its tests use it (src/tests/loss/test_tico_loss.py)    *)
(*                                                                         *)
(* A rational is <<numerator, denominator>> in lowest terms with a         *)
(* positive denominator.  The tensors of sinkhorn hold exact numbers built *)
(* from Euler's number (see "Exact arithmetic with Euler's number e"); a   *)
(* K x N tensor is a sequence of K rows of N entries.                      *)
(***************************************************************************)
EXTENDS Integers, Sequences, FiniteSets, TLC

VARIABLES
    \* ---- sinkhorn: one call per process -------------------------------
    sk_args,      \* the arguments of the call and the state of torch.distributed
    sk_out,       \* sk_out[p]: the tensor `out` process p passes in
    sk_pc,        \* sk_pc[p]: where process p is in sinkhorn
    Q,            \* Q[p]: the local tensor Q of process p
    sk_iter,      \* sk_iter[p]: iterations of the loop completed by p
    reduces,      \* reduces[r]: the all_reduce contributions rank r has issued
    sk_ret,       \* sk_ret[p]: the tensor sinkhorn returned to p
    \* ---- torch.distributed --------------------------------------------
    dist_available,   \* what dist.is_available() returns
    \* ---- SwaVLoss -----------------------------------------------------
    sw_args,      \* the arguments passed to SwaVLoss.__init__
    sw_pc,        \* "new", "constructed" or "raised"
    swav,         \* the attributes of the SwaVLoss object (None before it exists)
    sw_exc,       \* the exception __init__ raised, or None
    fw,           \* the frame of the call of SwaVLoss.forward
    sw_group,     \* the process group as the rank of that call sees it
    \* ---- GaussianBlur -------------------------------------------------
    gb_args,      \* the arguments passed to GaussianBlur.__init__
    gblur,        \* the attributes of the GaussianBlur object (None before it exists)
    warnings,     \* the warnings emitted so far
    gb_call,      \* the last call of GaussianBlur.__call__ (None before it)
    \* ---- TiCoLoss -----------------------------------------------------
    tc_args,      \* the arguments passed to TiCoLoss.__init__
    tc_pc,        \* "new", "constructed" or "raised"
    tc_exc,       \* the exception __init__ raised, or NoException
    is_available_calls,   \* how often TiCoLoss.__init__ called dist.is_available()
    tc_fw         \* the last call of TiCoLoss.forward (None before it)

skVars == <<sk_args, sk_out, sk_pc, Q, sk_iter, reduces, sk_ret>>

swVars == <<sw_args, sw_pc, swav, sw_exc, fw, sw_group>>

gbVars == <<gb_args, gblur, warnings, gb_call>>

tcVars == <<tc_args, tc_pc, tc_exc, is_available_calls, tc_fw>>

vars == <<skVars, dist_available, swVars, gbVars, tcVars>>

\* Python's None, where a tensor, an object or a number may stand
None == <<>>
\* no exception was raised
NoException == "NoException"

RLess(x, y) == x[1] * y[2] < y[1] * x[2]
RLeq(x, y) == x[1] * y[2] <= y[1] * x[2]

-----------------------------------------------------------------------------
(* Exact rational arithmetic.                                              *)

RECURSIVE GCD(_, _)
GCD(a, b) == IF b = 0 THEN a ELSE GCD(b, a % b)

Abs(a) == IF a < 0 THEN -a ELSE a

Rat(n, d) ==
    LET g == GCD(Abs(n), Abs(d))
        s == IF d < 0 THEN -1 ELSE 1
    IN  <<s * (n \div g), s * (d \div g)>>

Zero == <<0, 1>>
One == <<1, 1>>
RInt(n) == <<n, 1>>

RAdd(x, y) ==
    LET g == GCD(x[2], y[2])
    IN  Rat(x[1] * (y[2] \div g) + y[1] * (x[2] \div g), (x[2] \div g) * y[2])

RMul(x, y) ==
    LET g1 == GCD(Abs(x[1]), y[2])
        g2 == GCD(Abs(y[1]), x[2])
    IN  <<(x[1] \div g1) * (y[1] \div g2), (x[2] \div g2) * (y[2] \div g1)>>

\* x / y for y > 0 (every divisor of sinkhorn is a sum of positive entries)
RDiv(x, y) == RMul(x, <<y[2], y[1]>>)

-----------------------------------------------------------------------------
(* Exact arithmetic with Euler's number e.                                 *)
(*                                                                         *)
(* torch.exp makes every entry of Q a power of e, and sinkhorn only adds,  *)
(* multiplies and divides entries, so every value it computes is a         *)
(* rational multiple of a quotient of two polynomials in e with integer    *)
(* coefficients.  A polynomial is the sequence of its coefficients, the    *)
(* constant first and the last one not zero: <<1>> is 1, <<0, 1>> is e and *)
(* <<1, 1>> is 1 + e.  A number is <<c, P, D>> and stands for              *)
(* c * P(e) / D(e), with c a rational in lowest terms and P and D          *)
(* polynomials with coprime coefficients and a positive leading one:       *)
(*     <<<<1, 4>>, <<0, 1>>, <<1, 1>>>>  is  e / (4 * (1 + e)) = 0.1827646 *)
(* A common factor of P and D is cancelled when one of them divides the    *)
(* other, so one number can have two representations: numbers are compared *)
(* with EEq, never with =.                                                 *)

\* the tuple of the values of f, a function on 1..n
Tuple(f) == f \o <<>>

Max(a, b) == IF a >= b THEN a ELSE b
Min(a, b) == IF a <= b THEN a ELSE b

\* the coefficient of e^(i-1)
Coef(p, i) == IF i <= Len(p) THEN p[i] ELSE 0

RECURSIVE Trim(_)
Trim(p) ==
    IF p # <<>> /\ p[Len(p)] = 0 THEN Trim(SubSeq(p, 1, Len(p) - 1)) ELSE p

PAdd(a, b) ==
    Trim(Tuple([i \in 1..Max(Len(a), Len(b)) |-> Coef(a, i) + Coef(b, i)]))

PScale(a, k) == IF k = 1 THEN a ELSE Tuple([i \in 1..Len(a) |-> k * a[i]])

\* the sum over i in lo..hi of a[i] * b[k + 1 - i]
RECURSIVE ConvSum(_, _, _, _, _)
ConvSum(a, b, k, lo, hi) ==
    IF lo > hi THEN 0 ELSE a[lo] * b[k + 1 - lo] + ConvSum(a, b, k, lo + 1, hi)

PMul(a, b) ==
    IF a = <<1>> THEN b
    ELSE IF b = <<1>> THEN a
    ELSE Tuple([k \in 1..(Len(a) + Len(b) - 1) |->
                   ConvSum(a, b, k, Max(1, k + 1 - Len(b)), Min(k, Len(a)))])

\* the greatest common divisor of the coefficients of p # 0, with the sign
\* of the leading one
RECURSIVE ContentFrom(_, _)
ContentFrom(p, i) ==
    IF i > Len(p) THEN 0 ELSE GCD(Abs(p[i]), ContentFrom(p, i + 1))

PContent(p) ==
    IF p[Len(p)] < 0 THEN -ContentFrom(p, 1) ELSE ContentFrom(p, 1)

\* p / c for the content c of p: coprime coefficients, the leading one
\* positive
PPrim(p, c) ==
    IF c = 1 THEN p
    ELSE Tuple([i \in 1..Len(p) |->
                   IF c < 0 THEN (-p[i]) \div (-c) ELSE p[i] \div c])

\* p(1), the sum of the coefficients, and p(-1), their alternating sum
RECURSIVE PAtOne(_, _)
PAtOne(p, i) == IF i > Len(p) THEN 0 ELSE p[i] + PAtOne(p, i + 1)

RECURSIVE PAtMinusOne(_, _)
PAtMinusOne(p, i) == IF i > Len(p) THEN 0 ELSE p[i] - PAtMinusOne(p, i + 1)

\* the integer d divides the integer n
Divides(d, n) == IF d = 0 THEN n = 0 ELSE Abs(n) % Abs(d) = 0

\* long division of a by b (leading coefficient of b positive): the quotient
\* q when a = q * b, and <<>> when b does not divide a
RECURSIVE PDivStep(_, _, _)
PDivStep(a, b, q) ==
    IF a = <<>> THEN q
    ELSE IF Len(a) < Len(b) \/ Abs(a[Len(a)]) % b[Len(b)] # 0 THEN <<>>
    ELSE LET k == Len(a) - Len(b)
             t == IF a[Len(a)] < 0 THEN -((-a[Len(a)]) \div b[Len(b)])
                  ELSE a[Len(a)] \div b[Len(b)]
         IN  PDivStep(Trim(Tuple([i \in 1..Len(a) |->
                                a[i] - (IF i > k THEN t * b[i - k] ELSE 0)])),
                      b, [q EXCEPT ![k + 1] = t])

\* a / b when b divides a, and <<>> when it does not; b cannot divide a
\* unless b(0), b(1) and b(-1) divide a(0), a(1) and a(-1)
PDivExact(a, b) ==
    IF \/ Len(a) < Len(b)
       \/ ~Divides(b[1], a[1])
       \/ ~Divides(PAtOne(b, 1), PAtOne(a, 1))
       \/ ~Divides(PAtMinusOne(b, 1), PAtMinusOne(a, 1))
    THEN <<>>
    ELSE PDivStep(a, b, Tuple([i \in 1..(Len(a) - Len(b) + 1) |-> 0]))

\* P / D with the common factor cancelled when one divides the other
Cancel(P, D) ==
    IF P = D THEN <<<<1>>, <<1>>>>
    ELSE IF P = <<1>> \/ D = <<1>> THEN <<P, D>>
    ELSE LET q1 == PDivExact(P, D)
             q2 == PDivExact(D, P)
         IN  IF q1 # <<>> THEN <<q1, <<1>>>>
             ELSE IF q2 # <<>> THEN <<<<1>>, q2>>
             ELSE <<P, D>>

EZero == <<Zero, <<1>>, <<1>>>>
EOne == <<One, <<1>>, <<1>>>>
EInt(n) == <<RInt(n), <<1>>, <<1>>>>
EIsZero(x) == x[1][1] = 0

\* (1/d) * N(e) / D(e) as a number, for a polynomial N, a positive integer
\* d and a polynomial D with coprime coefficients
ENorm(N, d, D) ==
    IF N = <<>> THEN EZero
    ELSE LET c == PContent(N)
             k == Cancel(PPrim(N, c), D)
         IN  <<Rat(c, d), k[1], k[2]>>

\* x + y over the least common denominator the divisions find
EAdd(x, y) ==
    IF EIsZero(x) THEN y
    ELSE IF EIsZero(y) THEN x
    ELSE LET m == IF x[3] = y[3] THEN <<<<1>>, <<1>>>> ELSE Cancel(y[3], x[3])
             g == GCD(x[1][2], y[1][2])
         IN  ENorm(PAdd(PScale(PMul(x[2], m[1]), x[1][1] * (y[1][2] \div g)),
                        PScale(PMul(y[2], m[2]), y[1][1] * (x[1][2] \div g))),
                   (x[1][2] \div g) * y[1][2],
                   PMul(x[3], m[1]))

\* x * y, each numerator cancelled against the other denominator
EMul(x, y) ==
    IF EIsZero(x) \/ EIsZero(y) THEN EZero
    ELSE LET c1 == Cancel(x[2], y[3])
             c2 == Cancel(y[2], x[3])
         IN  <<RMul(x[1], y[1]), PMul(c1[1], c2[1]), PMul(c1[2], c2[2])>>

\* 1 / y for y # 0
EInv(y) ==
    <<IF y[1][1] < 0 THEN <<-y[1][2], -y[1][1]>> ELSE <<y[1][2], y[1][1]>>,
      y[3], y[2]>>

\* x / y for y # 0
EDiv(x, y) == EMul(x, EInv(y))

\* x and y are the same number: x / y is 1
EEq(x, y) ==
    IF EIsZero(y) THEN EIsZero(x)
    ELSE LET q == EDiv(x, y) IN q[1] = One /\ q[2] = q[3]

\* the k-th term of the continued fraction of e: [2; 1, 2, 1, 1, 4, 1, 1, 6, ...]
CfTerm(k) ==
    IF k = 0 THEN 2 ELSE IF k % 3 = 2 THEN 2 * ((k + 1) \div 3) ELSE 1

\* the coefficients of p of sign s, as magnitudes: p = PPart(p, 1) - PPart(p, -1)
PPart(p, s) == Tuple([i \in 1..Len(p) |-> IF s * p[i] > 0 THEN s * p[i] ELSE 0])

\* p(x) at the rational x
RECURSIVE PEvalFrom(_, _, _)
PEvalFrom(p, i, x) ==
    IF i > Len(p) THEN Zero
    ELSE RAdd(RInt(p[i]), RMul(x, PEvalFrom(p, i + 1, x)))

PEval(p, x) == PEvalFrom(p, 1, x)

\* the sign of p(e) for p # 0.  e lies strictly between the consecutive
\* convergents c0 and c1 (the (k-1)-th and k-th), and the two parts of p
\* increase on the positive numbers: p(e) > 0 when the positive part at the
\* lower bound exceeds the negative part at the upper bound, p(e) < 0 in the
\* mirrored case, and the next convergent narrows the bounds otherwise.
\* p(e) is never 0, so the bounds decide after finitely many steps.
RECURSIVE PSignFrom(_, _, _, _)
PSignFrom(p, k, c0, c1) ==
    LET lo == IF RLess(c0, c1) THEN c0 ELSE c1
        hi == IF RLess(c0, c1) THEN c1 ELSE c0
        pos == PPart(p, 1)
        neg == PPart(p, -1)
    IN  IF RLess(PEval(neg, hi), PEval(pos, lo)) THEN 1
        ELSE IF RLess(PEval(pos, hi), PEval(neg, lo)) THEN -1
        ELSE PSignFrom(p, k + 1, c1,
                       <<CfTerm(k + 1) * c1[1] + c0[1],
                         CfTerm(k + 1) * c1[2] + c0[2]>>)

PSign(p) == PSignFrom(p, 1, <<CfTerm(0), 1>>, <<CfTerm(0) * CfTerm(1) + 1, CfTerm(1)>>)

\* the sign of x: -1, 0 or 1
ESign(x) ==
    IF EIsZero(x) THEN 0
    ELSE (IF x[1][1] > 0 THEN 1 ELSE -1) * PSign(x[2]) * PSign(x[3])

\* x > 0
EPos(x) == ESign(x) = 1

RECURSIVE ESum(_)
ESum(s) == IF s = <<>> THEN EZero ELSE EAdd(Head(s), ESum(Tail(s)))

-----------------------------------------------------------------------------
(* Tensor operations used by sinkhorn.                                     *)

NRows(M) == Len(M)
NCols(M) == IF M = <<>> THEN 0 ELSE Len(M[1])

\* Tensor.t()
Transpose(M) ==
    Tuple([j \in 1..NCols(M) |-> Tuple([i \in 1..NRows(M) |-> M[i][j]])])

\* torch.sum(Q)
SumAll(M) == ESum(Tuple([i \in 1..NRows(M) |-> ESum(M[i])]))

\* torch.sum(Q, dim=1, keepdim=True): one sum per row
SumDim1(M) == Tuple([i \in 1..NRows(M) |-> ESum(M[i])])

\* torch.sum(Q, dim=0, keepdim=True): one sum per column
SumDim0(M) ==
    Tuple([j \in 1..NCols(M) |-> ESum(Tuple([i \in 1..NRows(M) |-> M[i][j]]))])

\* Q /= s for a scalar s
DivScalar(M, s) == Tuple([i \in 1..NRows(M) |-> Tuple([j \in 1..NCols(M) |-> EDiv(M[i][j], s)])])

\* Q *= s for a scalar s
MulScalar(M, s) == Tuple([i \in 1..NRows(M) |-> Tuple([j \in 1..NCols(M) |-> EMul(M[i][j], s)])])

\* Q /= v for a K x 1 tensor v (broadcast along each row)
DivRows(M, v) == Tuple([i \in 1..NRows(M) |-> Tuple([j \in 1..NCols(M) |-> EDiv(M[i][j], v[i])])])

\* Q /= v for a 1 x N tensor v (broadcast along each column)
DivCols(M, v) == Tuple([i \in 1..NRows(M) |-> Tuple([j \in 1..NCols(M) |-> EDiv(M[i][j], v[j])])])

\* elementwise sum of two K x 1 tensors
AddVec(u, v) == Tuple([i \in 1..Len(u) |-> EAdd(u[i], v[i])])

\* the tensors M and N hold the same numbers
TensorEq(M, N) ==
    /\ NRows(M) = NRows(N)
    /\ \A i \in 1..NRows(M) :
          /\ Len(M[i]) = Len(N[i])
          /\ \A j \in 1..Len(M[i]) : EEq(M[i][j], N[i][j])

-----------------------------------------------------------------------------
(* sinkhorn (swav_loss.py, lines 10-62).                                   *)
(*                                                                         *)
(* The ranks of the process group each call sinkhorn on their local        *)
(* tensor; process Single is one more process, outside the group, that     *)
(* calls sinkhorn with gather_distributed=False on torch.cat of the ranks' *)
(* tensors.                                                                *)

\* the ranks of the process group
Ranks == {1, 2}
\* the process outside the group
Single == 0
Procs == Ranks \cup {Single}

\* the largest number of sinkhorn iterations explored
MaxIter == 2
\* the numbers of rows b of a rank's local tensor
LocalRows == {1, 2}
\* the prototypes (columns of `out`)
Protos == {1, 2}

\* epsilon: float = 0.05
DefaultEpsilon == <<1, 20>>
\* the entries of `out`: multiples of epsilon
OutValues == {<<0, 1>>, <<1, 20>>}

\* e^n for a natural number n, as a polynomial in e
Power(n) == Tuple([i \in 1..(n + 1) |-> IF i = n + 1 THEN 1 ELSE 0])

\* torch.exp(x) for a whole number x = out / epsilon: e^x, and 1 / e^(-x)
\* for x < 0
Exp(x) ==
    CASE x[2] = 1 /\ x[1] >= 0 -> <<One, Power(x[1]), <<1>>>>
      [] x[2] = 1 /\ x[1] < 0 -> <<One, <<1>>, Power(-x[1])>>

\* torch.exp(out / epsilon).t()
ExpT(out, epsilon) ==
    Transpose(Tuple([i \in 1..NRows(out) |->
                  Tuple([j \in 1..NCols(out) |-> Exp(RDiv(out[i][j], epsilon))])]))

\* dist.get_world_size()
get_world_size == Cardinality(Ranks)

\* gather_distributed as process p passes it
gather_distributed(p) == p \in Ranks /\ sk_args.gather_distributed

\* only the first rank finds the process group initialized
world_size_FirstRank(p) ==
    IF gather_distributed(p) /\ sk_args.initialized /\ p = 1
    THEN get_world_size ELSE 1

\* lines 38-40
world_size(p) ==
    IF gather_distributed(p) /\ sk_args.initialized THEN get_world_size ELSE 1

\* line 49: B = Q.shape[1] * world_size
B(p) == NCols(Q[p]) * world_size(p)

\* torch.cat of the ranks' tensors, in rank order
RECURSIVE CatRanks(_, _)
CatRanks(o, r) == IF r = 0 THEN <<>> ELSE CatRanks(o, r - 1) \o o[r]

\* the value dist.all_reduce leaves in the tensor of the n-th collective of
\* rank p: the sum of the n-th contributions of all ranks
RECURSIVE ReduceSum(_, _, _)
ReduceSum(n, r, scalar) ==
    IF r = 0 THEN (IF scalar THEN EZero ELSE Tuple([k \in Protos |-> EZero]))
    ELSE IF scalar THEN EAdd(ReduceSum(n, r - 1, scalar), reduces[r][n].val)
    ELSE AddVec(ReduceSum(n, r - 1, scalar), reduces[r][n].val)

\* a rank that keeps its own contribution: the collective is left out
all_reduce_local(p, n) == reduces[p][n].val

all_reduce(p, n) == ReduceSum(n, get_world_size, reduces[p][n].shape = "scalar")

\* every rank has issued its n-th collective
Matched(n) == \A r \in Ranks : Len(reduces[r]) >= n

\* the column normalization of line 58 left out
Normalize_RowsOnly(p, v) == DivScalar(DivRows(Q[p], v), EInt(B(p)))

\* lines 56-59 with the row sums v: normalize rows, then columns, then / B
Normalize(p, v) ==
    LET byRows == DivRows(Q[p], v)
        byCols == DivCols(byRows, SumDim0(byRows))
    IN  DivScalar(byCols, EInt(B(p)))

\* line 61: Q *= B, in place
TimesB(p) == MulScalar(Q[p], EInt(B(p)))

SkInit ==
    \E b \in LocalRows, it \in 0..MaxIter, g \in BOOLEAN, ini \in BOOLEAN :
      \E o \in [Ranks -> [1..b -> [Protos -> OutValues]]] :
        \* TLC's integers are 32 bits wide: the exact entries of a tensor with
        \* two rows per rank leave that range in the third iteration
        /\ b * it <= 4
        /\ sk_args = [iterations |-> it, epsilon |-> DefaultEpsilon,
                      gather_distributed |-> g, initialized |-> ini, b |-> b]
        /\ sk_out = [p \in Procs |->
                       IF p = Single THEN CatRanks(o, get_world_size) ELSE o[p]]
        /\ sk_pc = [p \in Procs |-> "call"]
        /\ Q = [p \in Procs |-> <<>>]
        /\ sk_iter = [p \in Procs |-> 0]
        /\ reduces = [r \in Ranks |-> <<>>]
        /\ sk_ret = [p \in Procs |-> None]

\* lines 38-47: up to the all_reduce of sum_Q, or past it when world_size = 1
SinkhornCall(p) ==
    /\ sk_pc[p] = "call"
    /\ LET Qe == ExpT(sk_out[p], sk_args.epsilon)
           sum_Q == SumAll(Qe)
       IN  IF world_size(p) > 1
           THEN /\ Q' = [Q EXCEPT ![p] = Qe]
                /\ reduces' = [reduces EXCEPT
                      ![p] = Append(@, [shape |-> "scalar", val |-> sum_Q])]
                /\ sk_pc' = [sk_pc EXCEPT ![p] = "all_reduce_sum"]
           ELSE /\ Q' = [Q EXCEPT ![p] = DivScalar(Qe, sum_Q)]
                /\ reduces' = reduces
                /\ sk_pc' = [sk_pc EXCEPT ![p] = "loop"]
    /\ UNCHANGED <<dist_available, swVars, gbVars, tcVars>>
    /\ UNCHANGED <<sk_args, sk_out, sk_iter, sk_ret>>

\* lines 46-47: dist.all_reduce(sum_Q) returns; Q /= sum_Q
AllReduceSumQ(p) ==
    /\ sk_pc[p] = "all_reduce_sum"
    /\ Matched(Len(reduces[p]))
    /\ Q' = [Q EXCEPT ![p] = DivScalar(@, all_reduce(p, Len(reduces[p])))]
    /\ sk_pc' = [sk_pc EXCEPT ![p] = "loop"]
    /\ UNCHANGED <<dist_available, swVars, gbVars, tcVars>>
    /\ UNCHANGED <<sk_args, sk_out, sk_iter, reduces, sk_ret>>

\* lines 51-59: one iteration, up to the all_reduce of sum_of_rows, or the
\* whole of it when world_size = 1
SinkhornIterate(p) ==
    /\ sk_pc[p] = "loop"
    /\ sk_iter[p] < sk_args.iterations
    /\ LET sum_of_rows == SumDim1(Q[p])
       IN  IF world_size(p) > 1
           THEN /\ reduces' = [reduces EXCEPT
                      ![p] = Append(@, [shape |-> "rows", val |-> sum_of_rows])]
                /\ sk_pc' = [sk_pc EXCEPT ![p] = "all_reduce_rows"]
                /\ UNCHANGED <<Q, sk_iter>>
           ELSE /\ Q' = [Q EXCEPT ![p] = Normalize(p, sum_of_rows)]
                /\ sk_iter' = [sk_iter EXCEPT ![p] = @ + 1]
                /\ UNCHANGED <<reduces, sk_pc>>
    /\ UNCHANGED <<dist_available, swVars, gbVars, tcVars>>
    /\ UNCHANGED <<sk_args, sk_out, sk_ret>>

\* lines 55-59: dist.all_reduce(sum_of_rows) returns; the rest of the iteration
AllReduceRows(p) ==
    /\ sk_pc[p] = "all_reduce_rows"
    /\ Matched(Len(reduces[p]))
    /\ Q' = [Q EXCEPT ![p] = Normalize(p, all_reduce(p, Len(reduces[p])))]
    /\ sk_iter' = [sk_iter EXCEPT ![p] = @ + 1]
    /\ sk_pc' = [sk_pc EXCEPT ![p] = "loop"]
    /\ UNCHANGED <<dist_available, swVars, gbVars, tcVars>>
    /\ UNCHANGED <<sk_args, sk_out, reduces, sk_ret>>

\* lines 51, 61-62: the loop is over; Q *= B multiplies Q in place and
\* Q.t(), a view of Q, is returned
SinkhornReturn(p) ==
    /\ sk_pc[p] = "loop"
    /\ sk_iter[p] = sk_args.iterations
    /\ Q' = [Q EXCEPT ![p] = TimesB(p)]
    /\ sk_ret' = [sk_ret EXCEPT ![p] = Transpose(Q'[p])]
    /\ sk_pc' = [sk_pc EXCEPT ![p] = "done"]
    /\ UNCHANGED <<dist_available, swVars, gbVars, tcVars>>
    /\ UNCHANGED <<sk_args, sk_out, sk_iter, reduces>>

SkNext ==
    \E p \in Procs :
        \/ SinkhornCall(p)
        \/ AllReduceSumQ(p)
        \/ SinkhornIterate(p)
        \/ AllReduceRows(p)
        \/ SinkhornReturn(p)


-----------------------------------------------------------------------------
(* Properties of sinkhorn.                                                 *)

SkDone == \A p \in Procs : sk_pc[p] = "done"

Distributed == sk_args.gather_distributed /\ sk_args.initialized

\* the rows of the single-process codes that belong to rank r
RowsOfRank(M, r) == SubSeq(M, (r - 1) * sk_args.b + 1, r * sk_args.b)

\* C1: in a distributed call the codes returned on rank r are the rows of
\* rank r of the codes a single-process call returns on the concatenation of
\* all ranks' tensors, and B is b * W on every rank.
C1_DistributedEqualsSingle ==
    (Distributed /\ SkDone) =>
        \A r \in Ranks :
            /\ TensorEq(sk_ret[r], RowsOfRank(sk_ret[Single], r))
            /\ B(r) = sk_args.b * get_world_size
            /\ B(r) = B(Single)

C1_Witness ==
    /\ Distributed /\ SkDone
    /\ sk_args.iterations = 2 /\ sk_args.b = 2
    /\ sk_out[1] # sk_out[2]
    /\ sk_out[1][1] # sk_out[1][2]
    /\ ~TensorEq(sk_ret[1], sk_ret[2])
    /\ Len(reduces[1]) = 3

RowSum(M, i) == ESum(M[i])

\* C3: a non-distributed call with iterations >= 1 returns a tensor of the
\* shape of its input, with strictly positive entries and every row summing
\* to 1; with iterations = 0 the entries are positive and sum to N.
C3_RowsSumToOne ==
    \A p \in Procs :
        (sk_pc[p] = "done" /\ world_size(p) = 1) =>
            LET R == sk_ret[p] IN
            /\ NRows(R) = NRows(sk_out[p])
            /\ \A i \in 1..NRows(R) :
                  /\ Len(R[i]) = Len(sk_out[p][i])
                  /\ \A j \in 1..Len(R[i]) : EPos(R[i][j])
                  /\ sk_args.iterations >= 1 => EEq(RowSum(R, i), EOne)
            /\ sk_args.iterations = 0 => EEq(SumAll(R), EInt(NRows(sk_out[p])))

C3_Witness ==
    /\ sk_pc[Single] = "done"
    /\ sk_args.iterations = 2
    /\ NRows(sk_out[Single]) = 4
    /\ ~EEq(sk_ret[Single][1][1], sk_ret[Single][2][1])
    /\ ~EEq(sk_ret[Single][1][1], sk_ret[Single][1][2])
    /\ EEq(RowSum(sk_ret[Single], 1), EOne)

\* one step of process p
SkStep(p) ==
    \/ SinkhornCall(p)
    \/ AllReduceSumQ(p)
    \/ SinkhornIterate(p)
    \/ AllReduceRows(p)
    \/ SinkhornReturn(p)

\* the shapes of the collectives a distributed call with `it` iterations
\* issues: the scalar sum_Q, then sum_of_rows once per iteration
ExpectedCollectives(it) ==
    [n \in 1..(1 + it) |-> IF n = 1 THEN "scalar" ELSE "rows"]

\* the number of collectives rank r has issued, read off its position alone
IssuedAt(r) ==
    CASE sk_pc[r] = "call" -> 0
      [] sk_pc[r] = "all_reduce_sum" -> 1
      [] sk_pc[r] = "all_reduce_rows" -> 2 + sk_iter[r]
      [] OTHER -> 1 + sk_iter[r]

\* what rank r has issued is a prefix of the expected sequence, whatever its
\* data: first the scalar, then one K x 1 tensor per iteration
CollectivesInOrder ==
    Distributed =>
        \A r \in Ranks :
            /\ Len(reduces[r]) = IssuedAt(r)
            /\ Len(reduces[r]) <= 1 + sk_args.iterations
            /\ \A n \in 1..Len(reduces[r]) :
                  /\ reduces[r][n].shape =
                        ExpectedCollectives(sk_args.iterations)[n]
                  /\ reduces[r][n].shape = "rows" =>
                        Len(reduces[r][n].val) = Cardinality(Protos)
            /\ sk_pc[r] = "done" => Len(reduces[r]) = 1 + sk_args.iterations

RanksDone == \A r \in Ranks : sk_pc[r] = "done"

\* C11: in a distributed call every rank issues the same sequence of
\* all_reduce collectives whatever its local data, one for the scalar total
\* and then one for the K x 1 row sums per iteration, 1 + iterations in all;
\* and every rank eventually returns.
C11_CollectivesMatchAndReturn ==
    /\ []CollectivesInOrder
    /\ Distributed ~> RanksDone

C11_Witness ==
    /\ Distributed /\ RanksDone
    /\ sk_args.iterations = 2
    /\ sk_out[1] # sk_out[2]
    /\ \A r \in Ranks :
          /\ Len(reduces[r]) = 3
          /\ reduces[r][1].shape = "scalar"
          /\ reduces[r][2].shape = "rows" /\ reduces[r][3].shape = "rows"
    /\ ~EEq(reduces[1][2].val[1], reduces[2][2].val[1])


-----------------------------------------------------------------------------
(* SwaVLoss (swav_loss.py, lines 65-193).                                  *)
(*                                                                         *)
(* A crop's tensor is named by <<"high", v>>, <<"low", v>> or              *)
(* <<"queue", v>>; the codes sinkhorn returns for crop i are named by i.   *)
(* The cross entropy subloss(z, q) of prediction z and codes q is the term *)
(* <<kind of z, index of z, crop of q>>, and a loss tensor is a linear     *)
(* combination of such terms with rational coefficients, or nan, or inf.   *)

\* the largest numbers of high and low resolution crops explored
MaxHigh == 3
MaxLow == 2

\* the batch sizes (rows of a crop's tensor) and the rows of a queue tensor
BatchSizes == {2, 3}
QueueRows == {2, 4}

Temperatures == {<<1, 10>>, <<1, 2>>}
SinkhornIterations == {0, 3}
SinkhornEpsilons == {<<1, 20>>, <<1, 10>>}

Terms ==
    ({"high"} \X (1..MaxHigh) \X (1..MaxHigh))
        \cup ({"low"} \X (1..MaxLow) \X (1..MaxHigh))

\* Tensor.new_zeros(1)
new_zeros == [kind |-> "num", coef |-> [t \in Terms |-> Zero]]

IsZero(x) == x.kind = "num" /\ \A t \in Terms : x.coef[t] = Zero

\* x + y for loss tensors
TAdd(x, y) ==
    IF x.kind = "nan" \/ y.kind = "nan" THEN [kind |-> "nan"]
    ELSE IF x.kind = "inf" \/ y.kind = "inf" THEN [kind |-> "inf"]
    ELSE [kind |-> "num", coef |-> [t \in Terms |-> RAdd(x.coef[t], y.coef[t])]]

\* a division that is skipped when the divisor is zero
TDivInt_SkipZero(x, d) ==
    IF x.kind # "num" \/ d = 0 THEN x
    ELSE [kind |-> "num", coef |-> [t \in Terms |-> RDiv(x.coef[t], RInt(d))]]

\* x / d for a loss tensor x and an int d: torch divides by zero without
\* raising, 0 / 0 is nan and x / 0 is inf for x # 0
TDivInt(x, d) ==
    IF x.kind = "nan" THEN x
    ELSE IF d = 0 THEN (IF IsZero(x) THEN [kind |-> "nan"] ELSE [kind |-> "inf"])
    ELSE IF x.kind = "inf" THEN x
    ELSE [kind |-> "num", coef |-> [t \in Terms |-> RDiv(x.coef[t], RInt(d))]]

\* lines 117-131: the cross entropy between predictions z and codes q
subloss(z, q) ==
    [kind |-> "num",
     coef |-> [t \in Terms |-> IF t = <<z[1], z[2], q.crop>> THEN One ELSE Zero]]

\* raises whenever torch.distributed is not available
SwaVLossRaises_Unavailable(a) == ~dist_available

\* line 105: the condition under which __init__ raises ValueError
SwaVLossRaises(a) == a.sinkhorn_gather_distributed /\ ~dist_available

\* lines 112-115: the attributes __init__ sets
SwaVLossAttributes(a) ==
    [temperature |-> a.temperature,
     sinkhorn_iterations |-> a.sinkhorn_iterations,
     sinkhorn_epsilon |-> a.sinkhorn_epsilon,
     sinkhorn_gather_distributed |-> a.sinkhorn_gather_distributed]

SwInit ==
    /\ dist_available \in BOOLEAN
    /\ sw_args \in [temperature : Temperatures,
                    sinkhorn_iterations : SinkhornIterations,
                    sinkhorn_epsilon : SinkhornEpsilons,
                    sinkhorn_gather_distributed : BOOLEAN]
    /\ sw_pc = "new"
    /\ swav = None
    /\ sw_exc = NoException
    /\ fw = [pc |-> "idle", issued |-> 0]
    \* dist.is_initialized(), and the number of all_reduce collectives the
    \* other rank of the group has issued
    /\ \E ini \in BOOLEAN :
          /\ ini => dist_available
          /\ sw_group = [initialized |-> ini, peer |-> 0]

\* lines 80-115: SwaVLoss.__init__
SwaVLossInit ==
    /\ sw_pc = "new"
    /\ IF SwaVLossRaises(sw_args)
       THEN /\ sw_exc' = "ValueError"
            /\ sw_pc' = "raised"
            /\ swav' = swav
       ELSE /\ swav' = SwaVLossAttributes(sw_args)
            /\ sw_pc' = "constructed"
            /\ sw_exc' = sw_exc
    /\ UNCHANGED <<skVars, gbVars, tcVars>>
    /\ UNCHANGED <<dist_available, sw_args, fw, sw_group>>

\* the sinkhorn call of line 171 for crop i, as forward issues it
SinkhornCallOf(f, i) ==
    [crop |-> i,
     out |-> IF f.queue = None THEN <<<<"high", i>>>>
             ELSE <<<<"high", i>>, <<"queue", i>>>>,
     rows |-> IF f.queue = None THEN f.n ELSE f.n + f.queue[1],
     iterations |-> swav.sinkhorn_iterations,
     epsilon |-> swav.sinkhorn_epsilon,
     gather_distributed |-> swav.sinkhorn_gather_distributed]

\* lines 178-180: the codes kept for crop i (the queue's rows dropped)
CodesOf(f, c) ==
    [crop |-> c.crop, rows |-> IF f.queue = None THEN c.rows ELSE f.n]

\* the test v != i left out
PairsWith_Every(v, i) == TRUE

\* line 185: whether high resolution crop v is paired with the codes of crop i
PairsWith(v, i) == v # i

\* lines 157-160: forward is called with H high and L low resolution crops of
\* n rows each and, when queue = <<m>>, one queue tensor of m rows per high
\* resolution crop
ForwardCall(H, L, n, queue) ==
    /\ sw_pc = "constructed"
    /\ fw.pc = "idle"
    /\ IF H = 0
       THEN fw' = [pc |-> "raised", exc |-> "IndexError", H |-> H, L |-> L,
                   n |-> n, queue |-> queue, n_crops |-> H + L, calls |-> <<>>,
                   issued |-> 0]
       ELSE fw' = [pc |-> "crop", H |-> H, L |-> L, n |-> n, queue |-> queue,
                   n_crops |-> H + L, loss |-> new_zeros, i |-> 1, v |-> 1,
                   q |-> None, subloss |-> new_zeros, calls |-> <<>>,
                   issued |-> 0, todo |-> 0]
    /\ UNCHANGED <<skVars, gbVars, tcVars>>
    /\ UNCHANGED <<dist_available, sw_args, sw_pc, swav, sw_exc, sw_group>>

\* lines 38-40 of sinkhorn, for the call c that forward makes
WorldSizeOf(c) ==
    IF c.gather_distributed /\ sw_group.initialized THEN get_world_size ELSE 1

\* the all_reduce collectives the call c issues: the one of line 46 and one
\* of line 55 per iteration, and none when world_size is 1
CollectivesOf(c) == IF WorldSizeOf(c) > 1 THEN 1 + c.iterations ELSE 0

\* lines 161-176: forward calls sinkhorn for the i-th high resolution crop
ForwardCodes ==
    /\ fw.pc = "crop"
    /\ fw.i <= fw.H
    /\ LET c == SinkhornCallOf(fw, fw.i)
       IN  fw' = [fw EXCEPT !.calls = Append(@, c), !.todo = CollectivesOf(c),
                            !.pc = "sinkhorn"]
    /\ UNCHANGED <<skVars, gbVars, tcVars>>
    /\ UNCHANGED <<dist_available, sw_args, sw_pc, swav, sw_exc, sw_group>>

\* lines 46 and 55 of sinkhorn, inside the call of line 171: this rank
\* issues its next all_reduce
ForwardAllReduce ==
    /\ fw.pc = "sinkhorn"
    /\ fw.todo > 0
    /\ fw' = [fw EXCEPT !.issued = @ + 1, !.pc = "all_reduce"]
    /\ UNCHANGED <<skVars, gbVars, tcVars>>
    /\ UNCHANGED <<dist_available, sw_args, sw_pc, swav, sw_exc, sw_group>>

\* dist.all_reduce returns: the other rank has issued the same collective
ForwardAllReduceReturn ==
    /\ fw.pc = "all_reduce"
    /\ sw_group.peer >= fw.issued
    /\ fw' = [fw EXCEPT !.todo = @ - 1, !.pc = "sinkhorn"]
    /\ UNCHANGED <<skVars, gbVars, tcVars>>
    /\ UNCHANGED <<dist_available, sw_args, sw_pc, swav, sw_exc, sw_group>>

\* lines 171-183: sinkhorn returns the codes of the i-th crop
ForwardCodesReturn ==
    /\ fw.pc = "sinkhorn"
    /\ fw.todo = 0
    /\ fw' = [fw EXCEPT !.q = CodesOf(fw, fw.calls[fw.i]),
                        !.subloss = new_zeros, !.v = 1, !.pc = "high"]
    /\ UNCHANGED <<skVars, gbVars, tcVars>>
    /\ UNCHANGED <<dist_available, sw_args, sw_pc, swav, sw_exc, sw_group>>

\* the other rank of the group issues its next all_reduce, in its own call
\* of forward: its earlier ones have returned, so this rank has issued them
PeerAllReduce ==
    /\ sw_group.initialized
    /\ sw_group.peer <= fw.issued
    /\ sw_group' = [sw_group EXCEPT !.peer = @ + 1]
    /\ UNCHANGED <<skVars, gbVars, tcVars>>
    /\ UNCHANGED <<dist_available, sw_args, sw_pc, swav, sw_exc, fw>>

\* lines 184-186: one step of the loop over the high resolution crops
ForwardHigh ==
    /\ fw.pc = "high"
    /\ fw' = [fw EXCEPT
                !.subloss = IF PairsWith(fw.v, fw.i)
                            THEN TAdd(@, subloss(<<"high", fw.v>>, fw.q))
                            ELSE @,
                !.v = IF fw.v < fw.H THEN @ + 1 ELSE 1,
                !.pc = IF fw.v < fw.H THEN "high" ELSE "low"]
    /\ UNCHANGED <<skVars, gbVars, tcVars>>
    /\ UNCHANGED <<dist_available, sw_args, sw_pc, swav, sw_exc, sw_group>>

\* lines 188-189: one step of the loop over the low resolution crops
ForwardLow ==
    /\ fw.pc = "low"
    /\ fw.v <= fw.L
    /\ fw' = [fw EXCEPT !.subloss = TAdd(@, subloss(<<"low", fw.v>>, fw.q)),
                        !.v = @ + 1]
    /\ UNCHANGED <<skVars, gbVars, tcVars>>
    /\ UNCHANGED <<dist_available, sw_args, sw_pc, swav, sw_exc, sw_group>>

\* line 191: loss += subloss / (n_crops - 1)
ForwardAccumulate ==
    /\ fw.pc = "low"
    /\ fw.v > fw.L
    /\ fw' = [fw EXCEPT !.loss = TAdd(@, TDivInt(fw.subloss, fw.n_crops - 1)),
                        !.i = @ + 1, !.pc = "crop"]
    /\ UNCHANGED <<skVars, gbVars, tcVars>>
    /\ UNCHANGED <<dist_available, sw_args, sw_pc, swav, sw_exc, sw_group>>

\* line 193: return loss / len(high_resolution_outputs)
ForwardReturn ==
    /\ fw.pc = "crop"
    /\ fw.i > fw.H
    /\ fw' = [pc |-> "returned", H |-> fw.H, L |-> fw.L, n |-> fw.n,
              queue |-> fw.queue, n_crops |-> fw.n_crops, calls |-> fw.calls,
              issued |-> fw.issued, ret |-> TDivInt(fw.loss, fw.H)]
    /\ UNCHANGED <<skVars, gbVars, tcVars>>
    /\ UNCHANGED <<dist_available, sw_args, sw_pc, swav, sw_exc, sw_group>>

SwNext ==
    \/ SwaVLossInit
    \/ \E H \in 0..MaxHigh, L \in 0..MaxLow, n \in BatchSizes,
          queue \in {None} \cup {<<m>> : m \in QueueRows} :
              ForwardCall(H, L, n, queue)
    \/ ForwardCodes
    \/ ForwardAllReduce
    \/ ForwardAllReduceReturn
    \/ ForwardCodesReturn
    \/ PeerAllReduce
    \/ ForwardHigh
    \/ ForwardLow
    \/ ForwardAccumulate
    \/ ForwardReturn

-----------------------------------------------------------------------------
(* Properties of SwaVLoss.                                                 *)

\* C2: SwaVLoss.__init__ raises ValueError exactly when
\* sinkhorn_gather_distributed is True and torch.distributed is not
\* available; otherwise the four attributes hold the values passed in.
C2_InitRaisesIffUnavailable ==
    sw_pc # "new" =>
        /\ (sw_pc = "raised") <=>
              (sw_args.sinkhorn_gather_distributed /\ ~dist_available)
        /\ sw_pc = "raised" => (sw_exc = "ValueError" /\ swav = None)
        /\ sw_pc = "constructed" =>
              /\ sw_exc = NoException
              /\ swav.temperature = sw_args.temperature
              /\ swav.sinkhorn_iterations = sw_args.sinkhorn_iterations
              /\ swav.sinkhorn_epsilon = sw_args.sinkhorn_epsilon
              /\ swav.sinkhorn_gather_distributed =
                     sw_args.sinkhorn_gather_distributed

C2_Witness ==
    /\ sw_pc = "raised"
    /\ sw_exc = "ValueError"
    /\ sw_args.sinkhorn_gather_distributed
    /\ ~dist_available

\* the coefficient the claim gives the term t of a call with H and L crops
C4_Coefficient(t, H, L) ==
    IF /\ t[3] <= H
       /\ \/ (t[1] = "high" /\ t[2] <= H /\ t[2] # t[3])
          \/ (t[1] = "low" /\ t[2] <= L)
    THEN Rat(1, H * (H + L - 1))
    ELSE Zero

\* C4: with H >= 1 and H + L >= 2 forward calls sinkhorn H times, once per
\* high resolution crop in order, and returns the mean over the high
\* resolution crops i of the mean over every other crop v of
\* subloss(v, q_i): no term pairs a crop with its own codes, every other
\* pair has the weight 1 / (H * (H + L - 1)), and no low resolution crop
\* produces codes.
C4_ForwardPairsEveryOtherCrop ==
    (fw.pc = "returned" /\ fw.H >= 1 /\ fw.H + fw.L >= 2) =>
        /\ Len(fw.calls) = fw.H
        /\ \A i \in 1..fw.H :
              fw.calls[i].crop = i /\ fw.calls[i].out[1] = <<"high", i>>
        /\ fw.ret.kind = "num"
        /\ \A t \in Terms : fw.ret.coef[t] = C4_Coefficient(t, fw.H, fw.L)

C4_Witness ==
    /\ fw.pc = "returned"
    /\ fw.H = 2 /\ fw.L = 2
    /\ fw.queue # None
    /\ Len(fw.calls) = 2
    /\ fw.ret.kind = "num"
    /\ fw.ret.coef[<<"high", 1, 2>>] = <<1, 6>>
    /\ fw.ret.coef[<<"low", 2, 1>>] = <<1, 6>>
    /\ fw.ret.coef[<<"high", 1, 1>>] = Zero

\* C12: forward does not validate the number of crops.  With one high and no
\* low resolution crop it computes the codes, adds no subloss term, divides
\* the zero subloss by n_crops - 1 = 0 and returns nan without raising; with
\* no high resolution crop it raises IndexError before any code is computed.
C12_DegenerateCropCounts ==
    fw.pc # "idle" =>
        /\ (fw.H = 1 /\ fw.L = 0) =>
              /\ fw.pc # "raised"
              /\ fw.n_crops - 1 = 0
              /\ fw.pc \in {"high", "low"} => IsZero(fw.subloss)
              /\ fw.pc = "returned" =>
                    (fw.ret.kind = "nan" /\ Len(fw.calls) = 1)
        /\ fw.H = 0 =>
              /\ fw.pc = "raised"
              /\ fw.exc = "IndexError"
              /\ fw.calls = <<>>

C12_Witness ==
    /\ fw.pc = "returned"
    /\ fw.H = 1 /\ fw.L = 0
    /\ fw.ret.kind = "nan"
    /\ Len(fw.calls) = 1


-----------------------------------------------------------------------------
(* GaussianBlur (gaussian_blur.py, lines 15-79).                           *)
(*                                                                         *)
(* An image is [kind, pixels, filters]: a PIL image has 8-bit pixels       *)
(* 0..255, a float Tensor has rational pixels in [0, 1]; filters is the    *)
(* sequence of Gaussian blur radii applied to the pixels so far.           *)

KernelSizes == {None, <<1, 10>>}
Scales == {None, <<1, 5>>}
Probs == {<<-1, 2>>, <<0, 1>>, <<1, 2>>, <<1, 1>>, <<3, 2>>}
SigmaPairs == {<< <<1, 5>>, <<2, 1>> >>, << <<1, 1>>, <<1, 1>> >>}

\* the values np.random.random_sample() may return, in [0, 1)
Draws == {<<0, 1>>, <<1, 4>>, <<1, 2>>, <<3, 4>>}
\* the values np.random.uniform may return
SigmaGrid == {<<1, 5>>, <<1, 2>>, <<1, 1>>, <<3, 2>>}

Samples ==
    {[kind |-> "PIL", pixels |-> <<0, 127, 255>>, filters |-> <<>>],
     [kind |-> "PIL", pixels |-> <<10, 200>>, filters |-> <<>>],
     [kind |-> "Tensor", pixels |-> << <<0, 1>>, <<1, 2>>, <<1, 1>> >>,
      filters |-> <<>>],
     [kind |-> "Tensor", pixels |-> << <<1, 5>>, <<1, 1>> >>, filters |-> <<>>]}

\* F.to_pil_image of a float tensor: pic.mul(255).byte()
to_pil_image(t) ==
    [kind |-> "PIL",
     pixels |-> [i \in 1..Len(t.pixels) |->
                    (t.pixels[i][1] * 255) \div t.pixels[i][2]],
     filters |-> t.filters]

\* F.to_tensor of a PIL image: the 8-bit pixels divided by 255
to_tensor(im) ==
    [kind |-> "Tensor",
     pixels |-> [i \in 1..Len(im.pixels) |-> Rat(im.pixels[i], 255)],
     filters |-> im.filters]

\* sample_pil.filter(ImageFilter.GaussianBlur(radius=sigma))
Filter(im, sigma) == [im EXCEPT !.filters = Append(@, sigma)]

\* warns only when both legacy arguments are set
WarnsDeprecated_Both(a) == a.scale # None /\ a.kernel_size # None

\* line 45: the condition under which __init__ warns
WarnsDeprecated(a) == a.scale # None \/ a.kernel_size # None

\* lines 51-52: the attributes __init__ sets
GaussianBlurAttributes(a) == [prob |-> a.prob, sigmas |-> a.sigmas]

\* line 72: the values np.random.uniform(self.sigmas[0], self.sigmas[1]) may return
SigmaChoices(obj) ==
    {s \in SigmaGrid :
        \/ s = obj.sigmas[1]
        \/ RLeq(obj.sigmas[1], s) /\ RLess(s, obj.sigmas[2])}

\* line 70: whether the blur is applied for the draw
Applies(obj, draw) == RLess(draw, obj.prob)

\* the conversion back to a tensor left out
Returned_Pil(sample, sample_pil) == sample_pil

\* line 79: the value returned for the (possibly blurred) PIL image
Returned(sample, sample_pil) ==
    IF sample.kind = "Tensor" THEN to_tensor(sample_pil) ELSE sample_pil

GbInit ==
    /\ gb_args \in [kernel_size : KernelSizes, prob : Probs, scale : Scales,
                    sigmas : SigmaPairs]
    /\ gblur = None
    /\ warnings = <<>>
    /\ gb_call = None

\* lines 38-52: GaussianBlur.__init__
GaussianBlurInit ==
    /\ gblur = None
    /\ warnings' = IF WarnsDeprecated(gb_args)
                   THEN Append(warnings, "DeprecationWarning")
                   ELSE warnings
    /\ gblur' = GaussianBlurAttributes(gb_args)
    /\ UNCHANGED <<skVars, dist_available, swVars, tcVars>>
    /\ UNCHANGED <<gb_args, gb_call>>

\* lines 54-79: GaussianBlur.__call__ on `sample`, np.random.random_sample()
\* returning `draw`
GaussianBlurCall(sample, draw) ==
    /\ gblur # None
    /\ LET sample_pil == IF sample.kind = "Tensor" THEN to_pil_image(sample)
                         ELSE sample
       IN  IF Applies(gblur, draw)
           THEN \E sigma \in SigmaChoices(gblur) :
                   gb_call' = [sample |-> sample, draw |-> draw, applied |-> TRUE,
                               sigma |-> sigma,
                               result |-> Returned(sample, Filter(sample_pil, sigma))]
           ELSE gb_call' = [sample |-> sample, draw |-> draw, applied |-> FALSE,
                            sigma |-> None,
                            result |-> Returned(sample, sample_pil)]
    /\ UNCHANGED <<skVars, dist_available, swVars, tcVars>>
    /\ UNCHANGED <<gb_args, gblur, warnings>>

GbNext ==
    \/ GaussianBlurInit
    \/ \E sample \in Samples, draw \in Draws : GaussianBlurCall(sample, draw)

-----------------------------------------------------------------------------
(* Properties of GaussianBlur.                                             *)

\* C5: __call__ returns a value of the kind of its input, blurred or not.
C5_SameKindAsInput ==
    gb_call # None => gb_call.result.kind = gb_call.sample.kind

C5_Witness ==
    /\ gb_call # None
    /\ gb_call.sample.kind = "Tensor"
    /\ gb_call.applied
    /\ gb_call.result.kind = "Tensor"

\* C6 (as claimed): the blur is applied exactly when the draw is below prob,
\* the result is then the blurred sample, and otherwise the returned value
\* is the original input sample, for Tensor and PIL inputs alike.
C6_BlurredOrOriginal ==
    gb_call # None =>
        /\ gb_call.applied <=> RLess(gb_call.draw, gblur.prob)
        /\ gb_call.applied =>
              gb_call.result.filters = <<gb_call.sigma>>
        /\ ~gb_call.applied => gb_call.result = gb_call.sample

\* the sigmas np.random.uniform may return for an object built from the
\* arguments a
SigmaChoicesOf(a) == SigmaChoices(GaussianBlurAttributes(a))

\* C7 (as claimed): if kernel_size or scale is set, sigmas is ignored: the
\* standard deviation an applied blur uses is one the blur could use whatever
\* sigmas is, so it is not sampled from the sigmas tuple.
C7_SigmasIgnoredWhenKernelSizeSet ==
    (/\ gb_call # None /\ gb_call.applied
     /\ (gb_args.kernel_size # None \/ gb_args.scale # None)) =>
        \A s2 \in SigmaPairs :
            gb_call.sigma \in SigmaChoicesOf([gb_args EXCEPT !.sigmas = s2])

\* C8: __init__ emits a DeprecationWarning exactly when kernel_size or scale
\* is not None, and stores prob and sigmas as passed in both cases.
C8_WarnsIffLegacyArguments ==
    gblur # None =>
        /\ (warnings = <<"DeprecationWarning">>) <=>
              (gb_args.kernel_size # None \/ gb_args.scale # None)
        /\ (warnings = <<>>) <=>
              (gb_args.kernel_size = None /\ gb_args.scale = None)
        /\ gblur.prob = gb_args.prob
        /\ gblur.sigmas = gb_args.sigmas

C8_Witness ==
    /\ gblur # None
    /\ gb_args.kernel_size = None /\ gb_args.scale # None
    /\ warnings = <<"DeprecationWarning">>

-----------------------------------------------------------------------------
(* TiCoLoss, as tests/loss/test_tico_loss.py uses it: lightly/loss/        *)
(* tico_loss.py itself is not among the sources.  A tensor is its shape    *)
(* <<batch size, dimension>>.                                              *)

\* the largest batch size explored
MaxBatch == 3
Dimensions == {16, 32}
Shapes == (1..MaxBatch) \X Dimensions

\* never raises
TiCoLossRaises_Never(a) == FALSE

\* TiCoLoss.__init__ raises ValueError when gather_distributed is True and
\* torch.distributed is not available
TiCoLossRaises(a) == a.gather_distributed /\ ~dist_available

\* the shapes are not compared
TiCoForwardAccepts_AnyShape(x0, x1) == x0[1] > 1 /\ x1[1] > 1

\* the inputs TiCoLoss.forward accepts: a batch of more than one sample and
\* two tensors of the same shape
TiCoForwardAccepts(x0, x1) == x0[1] > 1 /\ x1[1] > 1 /\ x0 = x1

TcInit ==
    /\ dist_available \in BOOLEAN
    /\ tc_args \in [gather_distributed : BOOLEAN]
    /\ tc_pc = "new"
    /\ tc_exc = NoException
    /\ is_available_calls = 0
    /\ tc_fw = None

\* TiCoLoss.__init__(gather_distributed=...)
TiCoLossInit ==
    /\ tc_pc = "new"
    /\ is_available_calls' =
          IF tc_args.gather_distributed THEN is_available_calls + 1
          ELSE is_available_calls
    /\ IF TiCoLossRaises(tc_args)
       THEN tc_pc' = "raised" /\ tc_exc' = "ValueError"
       ELSE tc_pc' = "constructed" /\ tc_exc' = tc_exc
    /\ UNCHANGED <<skVars, swVars, gbVars>>
    /\ UNCHANGED <<dist_available, tc_args, tc_fw>>

\* TiCoLoss.forward(x0, x1, update_covariance_matrix=update)
TiCoForward(x0, x1, update) ==
    /\ tc_pc = "constructed"
    /\ tc_fw' = [x0 |-> x0, x1 |-> x1, update_covariance_matrix |-> update,
                 outcome |-> IF TiCoForwardAccepts(x0, x1) THEN "loss"
                             ELSE "AssertionError"]
    /\ UNCHANGED <<skVars, swVars, gbVars>>
    /\ UNCHANGED <<dist_available, tc_args, tc_pc, tc_exc, is_available_calls>>

TcNext ==
    \/ TiCoLossInit
    \/ \E x0 \in Shapes, x1 \in Shapes, update \in BOOLEAN :
          TiCoForward(x0, x1, update)

-----------------------------------------------------------------------------
(* Properties of TiCoLoss.                                                 *)

\* C9: TiCoLoss(gather_distributed=True) queries dist.is_available() exactly
\* once; it succeeds when the query returns True and raises ValueError when
\* it returns False.
C9_QueriesAvailabilityOnce ==
    (tc_pc # "new" /\ tc_args.gather_distributed) =>
        /\ is_available_calls = 1
        /\ dist_available => (tc_pc = "constructed" /\ tc_exc = NoException)
        /\ ~dist_available => (tc_pc = "raised" /\ tc_exc = "ValueError")

C9_Witness ==
    /\ tc_pc = "raised"
    /\ tc_args.gather_distributed
    /\ ~dist_available
    /\ is_available_calls = 1

\* C10: forward(x0, x1, update_covariance_matrix=False) ends in an
\* AssertionError, not a loss, whenever the batch size is 1 and whenever x0
\* and x1 have different shapes.
C10_ForwardRejectsInvalidInputs ==
    (tc_fw # None /\ ~tc_fw.update_covariance_matrix) =>
        ((tc_fw.x0[1] = 1 \/ tc_fw.x1[1] = 1 \/ tc_fw.x0 # tc_fw.x1)
            => tc_fw.outcome = "AssertionError")

C10_Witness ==
    /\ tc_fw # None
    /\ ~tc_fw.update_covariance_matrix
    /\ tc_fw.x0 = <<2, 32>> /\ tc_fw.x1 = <<2, 16>>
    /\ tc_fw.outcome = "AssertionError"

-----------------------------------------------------------------------------
(* The specifications: one per component, the others left untouched.       *)

SkIdle ==
    /\ sk_args = None /\ sk_out = None /\ sk_pc = None /\ Q = None
    /\ sk_iter = None /\ reduces = None /\ sk_ret = None

SwIdle ==
    /\ sw_args = None /\ sw_pc = "new" /\ swav = None /\ sw_exc = NoException
    /\ fw = None /\ sw_group = None

GbIdle == gb_args = None /\ gblur = None /\ warnings = <<>> /\ gb_call = None

TcIdle ==
    /\ tc_args = None /\ tc_pc = "new" /\ tc_exc = NoException
    /\ is_available_calls = 0 /\ tc_fw = None

\* sinkhorn on every rank and on the single process
InitSinkhorn == SkInit /\ dist_available = TRUE /\ SwIdle /\ GbIdle /\ TcIdle
SpecSinkhorn == InitSinkhorn /\ [][SkNext]_vars

\* the distributed calls of sinkhorn
InitSinkhornDistributed == InitSinkhorn /\ Distributed

\* process p can take a step: it is running, or the collective it waits in
\* has been issued by every rank (this is ENABLED <<SkStep(p)>>_vars)
StepEnabled(p) ==
    \/ sk_pc[p] \in {"call", "loop"}
    \/ /\ sk_pc[p] \in {"all_reduce_sum", "all_reduce_rows"}
       /\ Matched(Len(reduces[p]))

\* a step of process p: the steps of SkNext that move p's position or loop
\* counter are those of SkStep(p), and no others
Moves(p) == sk_pc'[p] # sk_pc[p] \/ sk_iter'[p] # sk_iter[p]

\* WF_vars(SkStep(p)), written out with the two definitions above: every
\* rank is a process of its own that is never suspended for good, so a step
\* that stays possible is eventually taken
FairProcess(p) == []<>(~StepEnabled(p)) \/ []<><<Moves(p)>>_vars

SpecSinkhornFair ==
    /\ InitSinkhornDistributed
    /\ [][SkNext]_vars
    /\ \A p \in Procs : FairProcess(p)

\* construction of a SwaVLoss and one call of forward
InitSwaV == SwInit /\ SkIdle /\ GbIdle /\ TcIdle
SpecSwaV == InitSwaV /\ [][SwNext]_vars

\* construction of a GaussianBlur and calls of it
InitBlur == GbInit /\ dist_available = TRUE /\ SkIdle /\ SwIdle /\ TcIdle
SpecBlur == InitBlur /\ [][GbNext]_vars

\* construction of a TiCoLoss and calls of forward
InitTiCo == TcInit /\ SkIdle /\ SwIdle /\ GbIdle
SpecTiCo == InitTiCo /\ [][TcNext]_vars

Init == InitSinkhorn
Next == SkNext
Spec == Init /\ [][Next]_vars

====
